---- MODULE Spec2Model ----
(***************************************************************************)
(* splunk_csv_importer.py: a CSV file is read into a column table, the     *)
(* target lookup is backed up when it holds data, a generation query is    *)
(* built from the column table and sent to Splunk, and the row count of    *)
(* the new lookup is read back.                                            *)
(*                                                                         *)
(* A Python str is a sequence of one-character strings, so that split,     *)
(* join and f-string concatenation are computed on characters.  A fixed    *)
(* piece of SPL that the program only ever copies (never splits, never     *)
(* compares with an identifier) is kept as one element of the sequence.    *)
(* A Python dict is a sequence of <<key, value>> pairs with distinct keys, *)
(* in insertion order.                                                     *)
(***************************************************************************)
EXTENDS Integers, Sequences, FiniteSets, TLC

VARIABLES
    lookup_name,        \* args.target_lookup_name
    csv,                \* the file at args.source_file: [readable, rows]
    clock,              \* what datetime.now() returns during this run
    pc,                 \* position of the run in generate_lookup
    results,            \* backup_lookup_if_exists: result of the existence check
    now,                \* backup_lookup_if_exists: datetime.now()
    backup_lookup_name, \* backup_lookup_if_exists: name of the backup
    datas,              \* generate_lookup: the column table
    SPL,                \* generate_lookup: the generation query
    result,             \* generate_lookup: result of the verification query
    log,                \* the calls of oneshot_search, in order
    printed,            \* what print() wrote
    raised,             \* the exception that ended the run, "none" while it runs
    exit_code           \* exit status of the process, -1 while it runs

vars == <<lookup_name, csv, clock, pc, results, now, backup_lookup_name, datas, SPL,
          result, log, printed, raised, exit_code>>

(***************************************************************************)
(* Bounds of the model                                                     *)
(***************************************************************************)
MaxNameLen == 3      \* longest generated lookup identifier
MaxCols == 2         \* most fields in a row of a generated CSV file
MaxRows == 2         \* most data rows of a generated CSV file
MaxResultRows == 2   \* most entries in one response of the search service
MaxCount == 1        \* largest 'count' a result row carries

(***************************************************************************)
(* Sequences                                                               *)
(***************************************************************************)
SeqsUpTo(S, n) == UNION {[1..k -> S] : k \in 0..n}

\* sep.join(parts)
RECURSIVE Join(_, _)
Join(sep, parts) ==
    IF parts = <<>> THEN <<>>
    ELSE IF Len(parts) = 1 THEN parts[1]
    ELSE parts[1] \o sep \o Join(sep, Tail(parts))

\* s.split(sep)[0] for a one-character sep: the part before the first sep
RECURSIVE SplitFirst(_, _)
SplitFirst(s, sep) ==
    IF s = <<>> THEN <<>>
    ELSE IF Head(s) = sep THEN <<>>
    ELSE <<Head(s)>> \o SplitFirst(Tail(s), sep)

\* Python's None where a str is expected
None == <<"<None>">>

(***************************************************************************)
(* dict                                                                    *)
(***************************************************************************)
DictHas(d, k) == \E i \in 1..Len(d) : d[i][1] = k

DictGet(d, k, default) ==
    IF DictHas(d, k) THEN d[CHOOSE i \in 1..Len(d) : d[i][1] = k][2] ELSE default

\* d[k] = v: a new key goes last, an old key keeps its place
DictSet(d, k, v) ==
    IF DictHas(d, k)
    THEN [i \in 1..Len(d) |-> IF d[i][1] = k THEN <<k, v>> ELSE d[i]]
    ELSE Append(d, <<k, v>>)

DictKeys(d) == [i \in 1..Len(d) |-> d[i][1]]

(***************************************************************************)
(* print(): one record per line written, the interpolated value in arg     *)
(***************************************************************************)
Msg(m) == [msg |-> m, arg |-> <<>>]
MsgN(m, n) == [msg |-> m, arg |-> <<n>>]

(***************************************************************************)
(* csv.DictReader(file), as csv_to_dict uses it.  csv.rows is what         *)
(* csv.reader yields for the file: one sequence of fields per line, the    *)
(* empty sequence for a blank line.                                        *)
(***************************************************************************)
\* reader.fieldnames is the first row read; None when the file has no row
HasFieldnames(rows) == Len(rows) > 0
Fieldnames(rows) == rows[1]

\* dict(zip(keys, vals)): a repeated key keeps its first place, its last value
RECURSIVE ZipDict(_, _, _)
ZipDict(d, keys, vals) ==
    IF keys = <<>> \/ vals = <<>> THEN d
    ELSE ZipDict(DictSet(d, Head(keys), Head(vals)), Tail(keys), Tail(vals))

\* for key in keys: d[key] = v
RECURSIVE FillDict(_, _, _)
FillDict(d, keys, v) ==
    IF keys = <<>> THEN d ELSE FillDict(DictSet(d, Head(keys), v), Tail(keys), v)

\* DictReader.__next__ for one non-blank row: extra fields go under the key
\* None (restkey), missing fields are None (restval)
RowDict(fieldnames, row) ==
    LET lf == Len(fieldnames)
        lr == Len(row)
        d == ZipDict(<<>>, fieldnames, row)
    IN  IF lf < lr THEN DictSet(d, None, SubSeq(row, lf + 1, lr))
        ELSE IF lf > lr THEN FillDict(d, SubSeq(fieldnames, lr + 1, lf), None)
        ELSE d

\* DictReader skips the rows that are []
DataRows(rows) == SelectSeq(Tail(rows), LAMBDA r : r # <<>>)

\* for column in reader.fieldnames: result_dict[column].append(row[column])
RECURSIVE AppendRow(_, _, _)
AppendRow(result_dict, columns, row) ==
    IF columns = <<>> THEN result_dict
    ELSE LET column == Head(columns)
         IN  AppendRow(DictSet(result_dict, column,
                               Append(DictGet(result_dict, column, <<>>),
                                      DictGet(row, column, None))),
                       Tail(columns), row)

\* for row in reader: ...
RECURSIVE AppendRows(_, _, _)
AppendRows(result_dict, fieldnames, rows) ==
    IF rows = <<>> THEN result_dict
    ELSE AppendRows(AppendRow(result_dict, fieldnames, RowDict(fieldnames, Head(rows))),
                    fieldnames, Tail(rows))

\* csv_to_dict(csv_file_path): open() raises OSError on an unreadable file,
\* the dict comprehension raises TypeError when reader.fieldnames is None
csv_to_dict(file) ==
    IF ~file.readable
    THEN [raised |-> "OSError", value |-> <<>>, out |-> <<Msg("reading_csv")>>]
    ELSE IF ~HasFieldnames(file.rows)
    THEN [raised |-> "TypeError", value |-> <<>>, out |-> <<Msg("reading_csv")>>]
    ELSE LET fieldnames == Fieldnames(file.rows)
             result_dict == AppendRows(FillDict(<<>>, fieldnames, <<>>),
                                       fieldnames, DataRows(file.rows))
         IN  [raised |-> "none", value |-> result_dict,
              out |-> <<Msg("reading_csv"), MsgN("columns_found", Len(result_dict))>>]

(***************************************************************************)
(* The SPL text                                                            *)
(***************************************************************************)
INPUTLOOKUP == "| inputlookup "
OUTPUTLOOKUP == "| outputlookup "
FIELDS == "| fields - _time "

\* f"| inputlookup {lookup_name} | head 1"
CheckQuery(name) == <<INPUTLOOKUP>> \o name \o <<" | head 1">>

\* f"| inputlookup {lookup_name} | outputlookup {backup_lookup_name}"
BackupQuery(name, backup) == <<INPUTLOOKUP>> \o name \o <<" ", OUTPUTLOOKUP>> \o backup

\* f"| inputlookup {lookup_name} | stats count"
VerifyQuery(name) == <<INPUTLOOKUP>> \o name \o <<" | stats count">>

\* the fixed pieces of SPL_TEMPLATE, around {field}, {data}, {field}, {field}
TPL_EVAL == "\n    | makeresults\n    | eval \""
TPL_ASSIGN == "\"=\""
TPL_MAKEMV == "\"\n    | makemv delim=\",\" \""
TPL_MVEXPAND == "\"\n    | mvexpand \""
TPL_END == "\"\n    "

\* SPL_TEMPLATE.format(field=key, data=data)
SPL_TEMPLATE(field, data) ==
    <<TPL_EVAL>> \o field \o <<TPL_ASSIGN>> \o data \o <<TPL_MAKEMV>> \o field
    \o <<TPL_MVEXPAND>> \o field \o <<TPL_END>>

\* f"| appendcols [{spl_query}]"
APPENDCOLS == "| appendcols ["
AppendCols(spl_query) == <<APPENDCOLS>> \o spl_query \o <<"]">>

\* the loop with every fragment wrapped, the first one too
RECURSIVE SplParts_WrapAll(_, _)
SplParts_WrapAll(items, index) ==
    IF items = <<>> THEN <<>>
    ELSE LET spl_query == SPL_TEMPLATE(Head(items)[1], Join(<<",">>, Head(items)[2]))
         IN  <<IF index >= 0 THEN AppendCols(spl_query) ELSE spl_query>>
             \o SplParts_WrapAll(Tail(items), index + 1)

\* the loop over enumerate(datas.items()), from entry index on (index from 0)
RECURSIVE SplParts(_, _)
SplParts(items, index) ==
    IF items = <<>> THEN <<>>
    ELSE LET spl_query == SPL_TEMPLATE(Head(items)[1], Join(<<",">>, Head(items)[2]))
         IN  <<IF index > 0 THEN AppendCols(spl_query) ELSE spl_query>>
             \o SplParts(Tail(items), index + 1)

\* ','.join(value) raises TypeError when an item of value is None
JoinRaises(table) ==
    \E i \in 1..Len(table) : \E j \in 1..Len(table[i][2]) : table[i][2][j] = None

\* the generation query: "\n".join(spl_parts) + f"| fields - _time | outputlookup {lookup_name}"
BuildQuery(table, name) ==
    Join(<<"\n">>, SplParts(table, 0)) \o <<FIELDS, OUTPUTLOOKUP>> \o name

(***************************************************************************)
(* The backup name                                                         *)
(***************************************************************************)
Digits == <<"0", "1", "2", "3", "4", "5", "6", "7", "8", "9">>

\* the decimal digits of n >= 0
RECURSIVE Str(_)
Str(n) == IF n < 10 THEN <<Digits[n + 1]>> ELSE Str(n \div 10) \o <<Digits[(n % 10) + 1]>>

\* a field of strftime padded with zeros to width w
RECURSIVE ZeroPad(_, _)
ZeroPad(s, w) == IF Len(s) >= w THEN s ELSE ZeroPad(<<"0">> \o s, w)

\* strftime with no padding of the fields
strftime_Unpadded(t) ==
    Str(t.year) \o Str(t.month) \o Str(t.day) \o Str(t.hour) \o Str(t.minute)
    \o Str(t.second)

\* datetime.strftime("%Y%m%d%H%M%S"): %Y is the year as it is, the other
\* fields are two digits each
strftime(t) ==
    Str(t.year) \o ZeroPad(Str(t.month), 2) \o ZeroPad(Str(t.day), 2)
    \o ZeroPad(Str(t.hour), 2) \o ZeroPad(Str(t.minute), 2) \o ZeroPad(Str(t.second), 2)

\* the backup name without '_backup_' and the timestamp
BackupName_NoStamp(name, timestamp) == SplitFirst(name, ".") \o <<".", "c", "s", "v">>

\* f"{lookup_name.split('.')[0]}_backup_{timestamp}.csv"
BackupName(name, timestamp) ==
    SplitFirst(name, ".") \o <<"_", "b", "a", "c", "k", "u", "p", "_">> \o timestamp
    \o <<".", "c", "s", "v">>

(***************************************************************************)
(* The search service, seen from oneshot_search: the answer to one query   *)
(* is an authentication failure, another failure, or a stream of entries   *)
(* of which some are result rows (dicts) and some are not (messages).      *)
(***************************************************************************)
ResultRows == {<<>>} \cup {<< <<"count", c>> >> : c \in 0..MaxCount}

StreamItems ==
    {[isdict |-> FALSE, row |-> <<>>]} \cup {[isdict |-> TRUE, row |-> r] : r \in ResultRows}

Responses ==
    {[kind |-> "ok", stream |-> s] : s \in SeqsUpTo(StreamItems, MaxResultRows)}
    \cup {[kind |-> "auth", stream |-> <<>>], [kind |-> "error", stream |-> <<>>]}

\* [result for result in reader if isinstance(result, dict)]
RECURSIVE OnlyDicts(_)
OnlyDicts(stream) ==
    IF stream = <<>> THEN <<>>
    ELSE IF Head(stream).isdict THEN <<Head(stream).row>> \o OnlyDicts(Tail(stream))
    ELSE OnlyDicts(Tail(stream))

\* oneshot_search without the exit(1): the diagnostic is printed and None
\* goes back to the caller
oneshot_search_NoExit(spl_query, resp) ==
    IF resp.kind = "auth"
    THEN [raised |-> "none", value |-> <<>>,
          out |-> <<Msg("executing"), Msg("auth_failed")>>]
    ELSE IF resp.kind = "error"
    THEN [raised |-> "HTTPError", value |-> <<>>, out |-> <<Msg("executing")>>]
    ELSE LET search_results == OnlyDicts(resp.stream)
         IN  [raised |-> "none", value |-> search_results,
              out |-> <<Msg("executing"), MsgN("executed", Len(search_results))>>]

\* oneshot_search(spl_query) when the service answers resp: AuthenticationError
\* is caught, reported and turned into exit(1); any other exception leaves the
\* function as it is
oneshot_search(spl_query, resp) ==
    IF resp.kind = "auth"
    THEN [raised |-> "SystemExit", value |-> <<>>,
          out |-> <<Msg("executing"), Msg("auth_failed")>>]
    ELSE IF resp.kind = "error"
    THEN [raised |-> "HTTPError", value |-> <<>>, out |-> <<Msg("executing")>>]
    ELSE LET search_results == OnlyDicts(resp.stream)
         IN  [raised |-> "none", value |-> search_results,
              out |-> <<Msg("executing"), MsgN("executed", Len(search_results))>>]

\* the record of one call of oneshot_search: who called, the query, how the
\* service answered and how many rows came back to the caller
LogEntry(caller, spl_query, resp, r) ==
    [caller |-> caller, query |-> spl_query, outcome |-> resp.kind, nrows |-> Len(r.value)]

\* exit(1), or an exception nobody catches: the interpreter ends with status 1
Abort(r) ==
    /\ pc' = "exited"
    /\ raised' = r.raised
    /\ exit_code' = 1

(***************************************************************************)
(* Inputs                                                                  *)
(***************************************************************************)
ExampleName ==
    <<"a", "t", "t", "a", "c", "k", "s", "_", "l", "o", "o", "k", "u", "p", ".", "c", "s", "v">>

NameChars == {"a", ".", "_"}
Names == SeqsUpTo(NameChars, MaxNameLen) \cup {ExampleName}

\* the lookup identifiers of the whole-run specification
RunNames == {ExampleName, <<"a">>, <<"a", ".", "a", ".", "a">>}

ExampleClock ==
    [year |-> 2024, month |-> 1, day |-> 2, hour |-> 3, minute |-> 4, second |-> 5]

Clocks ==
    {ExampleClock,
     [year |-> 1999, month |-> 12, day |-> 31, hour |-> 0, minute |-> 59, second |-> 10]}

NoTime == [year |-> 0, month |-> 0, day |-> 0, hour |-> 0, minute |-> 0, second |-> 0]

ColNames == {<<"a">>, <<"b">>}
FieldValues == {<<>>, <<"x">>}

File(rows) == [readable |-> TRUE, rows |-> rows]
Unreadable == [readable |-> FALSE, rows |-> <<>>]

\* every file of at most MaxRows lines after the first, each line of at most
\* MaxCols fields, plus the empty file and the unreadable one
CsvFiles ==
    {File(<<h>> \o rs) : h \in SeqsUpTo(ColNames, MaxCols),
                         rs \in SeqsUpTo(SeqsUpTo(FieldValues, MaxCols), MaxRows)}
    \cup {File(<<>>), Unreadable}

\* the files of the whole-run specification: unreadable, empty, a blank line
\* for a header, a header and
\* nothing else (one column, two columns, one name twice, a blank line after it),
\* two full rows, a row that is short of a field
RunCsvFiles ==
    LET a == <<"a">>
        b == <<"b">>
        x == <<"x">>
    IN  {Unreadable,
         File(<<>>),
         File(<< <<>> >>),
         File(<< <<a>> >>),
         File(<< <<a, b>> >>),
         File(<< <<a, a>> >>),
         File(<< <<a>>, <<>> >>),
         File(<< <<a, b>>, <<x, <<>> >>, << <<>>, x>> >>),
         File(<< <<a, b>>, <<x>> >>)}

(***************************************************************************)
(* The run                                                                 *)
(***************************************************************************)
\* main() has parsed the arguments and calls generate_lookup, which calls
\* backup_lookup_if_exists first
Start(names, files, clocks, at) ==
    /\ lookup_name \in names
    /\ csv \in files
    /\ clock \in clocks
    /\ pc = at
    /\ results = <<>>
    /\ now = NoTime
    /\ backup_lookup_name = <<>>
    /\ datas = <<>>
    /\ SPL = <<>>
    /\ result = <<>>
    /\ log = <<>>
    /\ printed = <<>>
    /\ raised = "none"
    /\ exit_code = -1

Init == Start(RunNames, RunCsvFiles, {ExampleClock}, "check")

\* backup_lookup_if_exists: the existence check
CheckExists ==
    /\ pc = "check"
    /\ \E resp \in Responses :
         LET spl_query == CheckQuery(lookup_name)
             r == oneshot_search(spl_query, resp)
         IN  /\ log' = Append(log, LogEntry("backup_lookup_if_exists", spl_query, resp, r))
             /\ printed' = printed \o <<Msg("checking")>> \o r.out
             /\ IF r.raised = "none"
                THEN /\ results' = r.value
                     /\ pc' = "backup"
                     /\ UNCHANGED <<raised, exit_code>>
                ELSE /\ Abort(r)
                     /\ UNCHANGED results
    /\ UNCHANGED <<lookup_name, csv, clock, result, now, backup_lookup_name, datas, SPL>>

\* NoBackup taken whatever the check returned
NoBackup_Always ==
    /\ pc = "backup"
    /\ printed' = Append(printed, Msg("no_backup"))
    /\ pc' = "load"
    /\ UNCHANGED <<lookup_name, csv, clock, result, results, now, backup_lookup_name, datas,
                   SPL, log, raised, exit_code>>

\* backup_lookup_if_exists: the else branch of "if results", and the return
NoBackup ==
    /\ pc = "backup"
    /\ results = <<>>
    /\ printed' = Append(printed, Msg("no_backup"))
    /\ pc' = "load"
    /\ UNCHANGED <<lookup_name, csv, clock, result, results, now, backup_lookup_name, datas, SPL, log,
                   raised, exit_code>>

\* backup_lookup_if_exists: "if results" holds; the clock is read and the
\* backup name is built
NameBackup ==
    /\ pc = "backup"
    /\ results # <<>>
    /\ now' = clock
    /\ backup_lookup_name' = BackupName(lookup_name, strftime(clock))
    /\ pc' = "backup_submit"
    /\ UNCHANGED <<lookup_name, csv, clock, result, results, datas, SPL, log, printed, raised, exit_code>>

\* SubmitBackup with the call of oneshot_search left out
SubmitBackup_NotSent ==
    /\ pc = "backup_submit"
    /\ printed' = Append(printed, Msg("backup_created"))
    /\ pc' = "load"
    /\ results' = <<>>
    /\ now' = NoTime
    /\ backup_lookup_name' = <<>>
    /\ UNCHANGED <<lookup_name, csv, clock, result, datas, SPL, log, raised, exit_code>>

\* SubmitBackup with every failure of the backup query caught and passed over
SubmitBackup_Swallow ==
    /\ pc = "backup_submit"
    /\ \E resp \in Responses :
         LET backup_query == BackupQuery(lookup_name, backup_lookup_name)
             r == oneshot_search(backup_query, resp)
         IN  /\ log' = Append(log, LogEntry("backup_lookup_if_exists", backup_query, resp, r))
             /\ printed' = printed \o r.out \o <<Msg("backup_created")>>
    /\ pc' = "load"
    /\ results' = <<>>
    /\ now' = NoTime
    /\ backup_lookup_name' = <<>>
    /\ UNCHANGED <<lookup_name, csv, clock, result, datas, SPL, raised, exit_code>>

\* backup_lookup_if_exists: the backup query, and the return (the locals of
\* the function are gone)
SubmitBackup ==
    /\ pc = "backup_submit"
    /\ \E resp \in Responses :
         LET backup_query == BackupQuery(lookup_name, backup_lookup_name)
             r == oneshot_search(backup_query, resp)
         IN  /\ log' = Append(log, LogEntry("backup_lookup_if_exists", backup_query, resp, r))
             /\ IF r.raised = "none"
                THEN /\ printed' = printed \o r.out \o <<Msg("backup_created")>>
                     /\ pc' = "load"
                     /\ results' = <<>>
                     /\ now' = NoTime
                     /\ backup_lookup_name' = <<>>
                     /\ UNCHANGED <<raised, exit_code>>
                ELSE /\ printed' = printed \o r.out
                     /\ Abort(r)
                     /\ UNCHANGED <<results, now, backup_lookup_name>>
    /\ UNCHANGED <<lookup_name, csv, clock, result, datas, SPL>>

\* generate_lookup: datas = csv_to_dict(csv_file_path)
LoadCsv ==
    /\ pc = "load"
    /\ LET r == csv_to_dict(csv)
       IN  /\ printed' = printed \o <<Msg("generating")>> \o r.out
           /\ IF r.raised = "none"
              THEN /\ datas' = r.value
                   /\ pc' = "build"
                   /\ UNCHANGED <<raised, exit_code>>
              ELSE /\ Abort(r)
                   /\ UNCHANGED datas
    /\ UNCHANGED <<lookup_name, csv, clock, result, results, now, backup_lookup_name, SPL, log>>

\* generate_lookup: the generation query is built from datas
BuildSPL ==
    /\ pc = "build"
    /\ IF JoinRaises(datas)
       THEN /\ Abort([raised |-> "TypeError"])
            /\ UNCHANGED SPL
       ELSE /\ SPL' = BuildQuery(datas, lookup_name)
            /\ pc' = "generate"
            /\ UNCHANGED <<raised, exit_code>>
    /\ UNCHANGED <<lookup_name, csv, clock, result, results, now, backup_lookup_name, datas, log, printed>>

\* SubmitGeneration with the verification left out
SubmitGeneration_NoVerify ==
    /\ pc = "generate"
    /\ \E resp \in Responses :
         LET r == oneshot_search(SPL, resp)
         IN  /\ log' = Append(log, LogEntry("generate_lookup", SPL, resp, r))
             /\ IF r.raised = "none"
                THEN /\ printed' = printed \o r.out \o <<Msg("lookup_created")>>
                     /\ pc' = "done"
                     /\ exit_code' = 0
                     /\ UNCHANGED raised
                ELSE /\ printed' = printed \o r.out
                     /\ Abort(r)
    /\ UNCHANGED <<lookup_name, csv, clock, result, results, now, backup_lookup_name, datas, SPL>>

\* generate_lookup: oneshot_search(SPL)
SubmitGeneration ==
    /\ pc = "generate"
    /\ \E resp \in Responses :
         LET r == oneshot_search(SPL, resp)
         IN  /\ log' = Append(log, LogEntry("generate_lookup", SPL, resp, r))
             /\ IF r.raised = "none"
                THEN /\ printed' = printed \o r.out \o <<Msg("lookup_created")>>
                     /\ pc' = "verify"
                     /\ UNCHANGED <<raised, exit_code>>
                ELSE /\ printed' = printed \o r.out
                     /\ Abort(r)
    /\ UNCHANGED <<lookup_name, csv, clock, result, results, now, backup_lookup_name, datas, SPL>>

\* len(result) for the count
RowCount_Len(rows) == Len(rows)

\* result[0].get('count', 0)
RowCount(rows) == DictGet(rows[1], "count", 0)

\* generate_lookup: the verification query and the report; main returns and
\* the process ends with status 0
Verify ==
    /\ pc = "verify"
    /\ \E resp \in Responses :
         LET verify_query == VerifyQuery(lookup_name)
             r == oneshot_search(verify_query, resp)
         IN  /\ log' = Append(log, LogEntry("generate_lookup", verify_query, resp, r))
             /\ IF r.raised = "none"
                THEN /\ result' = r.value
                     /\ printed' = printed \o r.out
                                   \o (IF r.value # <<>>
                                       THEN <<MsgN("contains_rows", RowCount(r.value))>>
                                       ELSE <<>>)
                     /\ pc' = "done"
                     /\ exit_code' = 0
                     /\ UNCHANGED raised
                ELSE /\ printed' = printed \o r.out
                     /\ Abort(r)
                     /\ UNCHANGED result
    /\ UNCHANGED <<lookup_name, csv, clock, results, now, backup_lookup_name, datas, SPL>>

Next ==
    \/ CheckExists
    \/ NoBackup
    \/ NameBackup
    \/ SubmitBackup
    \/ LoadCsv
    \/ BuildSPL
    \/ SubmitGeneration
    \/ Verify

\* a whole run of the program
Spec == Init /\ [][Next]_vars

\* backup_lookup_if_exists alone, over every generated lookup identifier
InitBackup == Start(Names, {File(<< << <<"a">> >> >>)}, Clocks, "check")
NextBackup ==
    \/ CheckExists
    \/ NoBackup
    \/ NameBackup
    \/ SubmitBackup
SpecBackup == InitBackup /\ [][NextBackup]_vars

\* csv_to_dict and the building of the query alone, over every generated file
InitLoad == Start({ExampleName}, CsvFiles, {ExampleClock}, "load")
NextLoad ==
    \/ LoadCsv
    \/ BuildSPL
SpecLoad == InitLoad /\ [][NextLoad]_vars

(***************************************************************************)
(* Reading a query back                                                    *)
(***************************************************************************)
Positions(q, token) == {i \in 1..Len(q) : q[i] = token}
Count(q, token) == Cardinality(Positions(q, token))

\* the query writes a lookup; the lookup written is named after the last
\* outputlookup
HasWrite(q) == Positions(q, OUTPUTLOOKUP) # {}
WriteTarget(q) ==
    LET i == CHOOSE k \in Positions(q, OUTPUTLOOKUP) :
                 \A m \in Positions(q, OUTPUTLOOKUP) : m <= k
    IN  SubSeq(q, i + 1, Len(q))
Overwrites(q, name) == HasWrite(q) /\ WriteTarget(q) = name

\* '| inputlookup <name><tail>' and nothing else
ReadsOnly(q, name, tail) ==
    /\ Len(q) = Len(name) + 2
    /\ q[1] = INPUTLOOKUP
    /\ SubSeq(q, 2, Len(name) + 1) = name
    /\ q[Len(q)] = tail

IsCheck(q, name) == ReadsOnly(q, name, " | head 1")
IsVerify(q, name) == ReadsOnly(q, name, " | stats count")

\* 'inputlookup <name> | outputlookup <another lookup>'
IsBackup(q, name) ==
    /\ Len(q) > Len(name) + 3
    /\ q[1] = INPUTLOOKUP
    /\ SubSeq(q, 2, Len(name) + 1) = name
    /\ q[Len(name) + 2] = " "
    /\ q[Len(name) + 3] = OUTPUTLOOKUP
    /\ Count(q, OUTPUTLOOKUP) = 1
    /\ WriteTarget(q) # name

\* the generation query: it starts no read of a lookup and ends in
\* 'outputlookup <name>'
IsGeneration(q, name) ==
    /\ Count(q, INPUTLOOKUP) = 0
    /\ Overwrites(q, name)

(***************************************************************************)
(* C1: the query that overwrites the target lookup is submitted only after *)
(* the existence check on the target has returned and, when the check      *)
(* returned at least one row, only after the backup query was submitted    *)
(* and returned without failure.                                           *)
(***************************************************************************)
C1_BackupBeforeOverwrite ==
    \A i \in 1..Len(log) :
        Overwrites(log[i].query, lookup_name) =>
            \E j \in 1..(i - 1) :
                /\ IsCheck(log[j].query, lookup_name)
                /\ log[j].outcome = "ok"
                /\ log[j].nrows > 0 =>
                       \E k \in (j + 1)..(i - 1) :
                           /\ IsBackup(log[k].query, lookup_name)
                           /\ log[k].outcome = "ok"

\* a lookup that held data has been backed up and then overwritten
C1_Witness ==
    /\ Len(log) >= 3
    /\ log[1].nrows > 0
    /\ log[2].outcome = "ok"
    /\ Overwrites(log[3].query, lookup_name)
    /\ log[3].outcome = "ok"

\* the calls in which backup_lookup_if_exists submitted a write
BackupWrites ==
    {i \in 1..Len(log) :
        log[i].caller = "backup_lookup_if_exists" /\ HasWrite(log[i].query)}

(***************************************************************************)
(* C2: backup_lookup_if_exists submits a backup write exactly when the     *)
(* existence check returned at least one row: one write then, none when    *)
(* the check returned no row.                                              *)
(***************************************************************************)
C2_WriteIffRows ==
    /\ Cardinality(BackupWrites) <= 1
    /\ \A i \in BackupWrites :
           /\ i = 2
           /\ IsCheck(log[1].query, lookup_name)
           /\ log[1].outcome = "ok"
           /\ log[1].nrows > 0
    /\ (pc \notin {"check", "backup", "backup_submit"} /\ log[1].outcome = "ok") =>
           Cardinality(BackupWrites) = (IF log[1].nrows > 0 THEN 1 ELSE 0)

\* the check returned more than one row, one write followed and the function
\* returned
C2_Witness ==
    /\ pc = "load"
    /\ Len(log) = 2
    /\ log[1].nrows > 1
    /\ BackupWrites = {2}

(***************************************************************************)
(* C3: an authentication failure on any query prints the diagnostic and    *)
(* ends the process with status 1; no query is submitted after it.         *)
(***************************************************************************)
C3_AuthFailureExits ==
    \A i \in 1..Len(log) :
        log[i].outcome = "auth" =>
            /\ i = Len(log)
            /\ pc = "exited"
            /\ raised = "SystemExit"
            /\ exit_code = 1
            /\ printed[Len(printed)] = Msg("auth_failed")

\* the first query of the run met the authentication failure
C3_Witness ==
    /\ Len(log) = 1
    /\ log[1].outcome = "auth"
    /\ pc = "exited"

(***************************************************************************)
(* C4: a failure that is not an authentication failure (a query the        *)
(* service fails, a CSV file that cannot be loaded) ends the run: nothing  *)
(* is submitted after it, no query is submitted twice, and after a failed  *)
(* backup the target is never overwritten.                                 *)
(***************************************************************************)
C4_FailureAborts ==
    /\ \A i \in 1..Len(log) :
           log[i].outcome = "error" =>
               /\ i = Len(log)
               /\ pc = "exited"
               /\ raised = "HTTPError"
               /\ exit_code = 1
    /\ raised \in {"OSError", "TypeError"} =>
           /\ pc = "exited"
           /\ exit_code = 1
           /\ \A i \in 1..Len(log) : log[i].caller # "generate_lookup"
    /\ \A i, j \in 1..Len(log) : i # j => log[i].query # log[j].query
    /\ (\E k \in 1..Len(log) :
            IsBackup(log[k].query, lookup_name) /\ log[k].outcome # "ok") =>
           \A i \in 1..Len(log) : ~Overwrites(log[i].query, lookup_name)

\* the backup query failed
C4_Witness ==
    /\ Len(log) = 2
    /\ IsBackup(log[2].query, lookup_name)
    /\ log[2].outcome = "error"
    /\ pc = "exited"

(***************************************************************************)
(* C5: in a run in which no step fails the queries submitted are, in this  *)
(* order: the existence check, the backup exactly when the check returned  *)
(* a row, the generation query, the verification query; nothing else.      *)
(***************************************************************************)
C5_QuerySequence ==
    pc = "done" =>
        LET n == Len(log)
        IN  /\ n >= 3
            /\ n = (IF log[1].nrows > 0 THEN 4 ELSE 3)
            /\ IsCheck(log[1].query, lookup_name)
            /\ n = 4 => IsBackup(log[2].query, lookup_name)
            /\ IsGeneration(log[n - 1].query, lookup_name)
            /\ IsVerify(log[n].query, lookup_name)
            /\ \A i \in 1..n : log[i].outcome = "ok"

\* a run with a backup has ended
C5_Witness ==
    /\ pc = "done"
    /\ Len(log) = 4
    /\ exit_code = 0

(***************************************************************************)
(* Reading a backup name back                                              *)
(***************************************************************************)
\* the index of the first '.' of s, Len(s) + 1 when it has none
FirstDot(s) ==
    IF \E i \in 1..Len(s) : s[i] = "."
    THEN CHOOSE i \in 1..Len(s) : s[i] = "." /\ \A j \in 1..(i - 1) : s[j] # "."
    ELSE Len(s) + 1

IsDigit(c) == \E d \in 1..10 : Digits[d] = c
DigitValue(c) == (CHOOSE d \in 1..10 : Digits[d] = c) - 1

\* the number a sequence of digits writes
RECURSIVE Number(_)
Number(s) ==
    IF s = <<>> THEN 0
    ELSE 10 * Number(SubSeq(s, 1, Len(s) - 1)) + DigitValue(s[Len(s)])

BackupInfix == <<"_", "b", "a", "c", "k", "u", "p", "_">>

ExampleBackup ==
    <<"a", "t", "t", "a", "c", "k", "s", "_", "l", "o", "o", "k", "u", "p",
      "_", "b", "a", "c", "k", "u", "p", "_", "2", "0", "2", "4", "0", "1",
      "0", "2", "0", "3", "0", "4", "0", "5", ".", "c", "s", "v">>

\* name = base, '_backup_', fourteen digits that read as the clock t, suffix
BackupNameIs(name, base, t, suffix) ==
    LET k == Len(base)
        stamp == SubSeq(name, k + 9, k + 22)
    IN  /\ Len(name) = k + 22 + Len(suffix)
        /\ SubSeq(name, 1, k) = base
        /\ SubSeq(name, k + 1, k + 8) = BackupInfix
        /\ \A i \in 1..14 : IsDigit(stamp[i])
        /\ Number(SubSeq(stamp, 1, 4)) = t.year
        /\ Number(SubSeq(stamp, 5, 6)) = t.month
        /\ Number(SubSeq(stamp, 7, 8)) = t.day
        /\ Number(SubSeq(stamp, 9, 10)) = t.hour
        /\ Number(SubSeq(stamp, 11, 12)) = t.minute
        /\ Number(SubSeq(stamp, 13, 14)) = t.second
        /\ SubSeq(name, k + 23, Len(name)) = suffix

BaseOf(name) == SubSeq(name, 1, FirstDot(name) - 1)
ExtensionOf(name) == SubSeq(name, FirstDot(name), Len(name))

(***************************************************************************)
(* C6, as amended: the backup identifier is the part of the lookup         *)
(* identifier before its first '.', then '_backup_', then the clock        *)
(* reading as the 14 digits YYYYMMDDHHMMSS, then '.csv' whatever the       *)
(* extension of the lookup identifier is; for "attacks_lookup.csv" at      *)
(* 2024-01-02T03:04:05 it is "attacks_lookup_backup_20240102030405.csv".   *)
(***************************************************************************)
C6_BackupNameFormat ==
    pc = "backup_submit" =>
        /\ BackupNameIs(backup_lookup_name, BaseOf(lookup_name), now,
                        <<".", "c", "s", "v">>)
        /\ (lookup_name = ExampleName /\ now = ExampleClock) =>
               backup_lookup_name = ExampleBackup

\* the backup name of the example has been built
C6_Witness ==
    /\ pc = "backup_submit"
    /\ lookup_name = ExampleName
    /\ now = ExampleClock
    /\ backup_lookup_name = ExampleBackup

HasExtension(name) ==
    1 < FirstDot(name) /\ FirstDot(name) < Len(name) /\ name[Len(name)] # "."

(***************************************************************************)
(* C6 as stated: ... followed by '_backup_', the 14 digits and the         *)
(* extension, read as the extension of the lookup identifier where the     *)
(* identifier is a base name, a '.' and more, and as '.csv' elsewhere.     *)
(***************************************************************************)
C6_AsStated ==
    pc = "backup_submit" =>
        BackupNameIs(backup_lookup_name, BaseOf(lookup_name), now,
                     IF HasExtension(lookup_name)
                     THEN ExtensionOf(lookup_name)
                     ELSE <<".", "c", "s", "v">>)

(***************************************************************************)
(* C10: the backup identifier differs from the lookup identifier it is     *)
(* derived from, so the backup write never targets the lookup: a query     *)
(* that writes to the target lookup is the generation query.               *)
(***************************************************************************)
C10_BackupIsAnotherLookup ==
    /\ pc = "backup_submit" => backup_lookup_name # lookup_name
    /\ \A i \in 1..Len(log) :
           Overwrites(log[i].query, lookup_name) =>
               /\ log[i].caller = "generate_lookup"
               /\ log[i].query = SPL

\* a backup of a lookup whose name holds dots has been written
C10_Witness ==
    /\ Len(log) = 2
    /\ HasWrite(log[2].query)
    /\ log[2].outcome = "ok"
    /\ Count(lookup_name, ".") > 1

\* the lines after the first that are not blank
NumDataRows(rows) == Cardinality({i \in 2..Len(rows) : rows[i] # <<>>})

(***************************************************************************)
(* C7: for a readable file whose header row has N column names and which   *)
(* has M data rows, csv_to_dict returns one entry per header column, in    *)
(* header order, each with exactly M values.                               *)
(***************************************************************************)
C7_OneEntryPerColumn ==
    pc = "build" =>
        LET header == csv.rows[1]
        IN  /\ Len(datas) = Len(header)
            /\ DictKeys(datas) = header
            /\ \A i \in 1..Len(datas) : Len(datas[i][2]) = NumDataRows(csv.rows)

\* a readable file with a header row of at least one name and no data row
HeaderOnly(file) ==
    /\ file.readable
    /\ Len(file.rows) >= 1
    /\ Len(file.rows[1]) >= 1
    /\ NumDataRows(file.rows) = 0

\* the calls that submitted a generation query
Generations == {i \in 1..Len(log) : IsGeneration(log[i].query, lookup_name)}

\* every fragment of q assigns the empty string
AssignsEmpty(q) == \A i \in Positions(q, TPL_ASSIGN) : q[i + 1] = TPL_MAKEMV

(***************************************************************************)
(* C8, as amended: for a CSV file with a header row and no data row every  *)
(* entry of the column table is empty and generate_lookup raises no error  *)
(* of its own; unless a query fails it submits exactly one generation      *)
(* query, with one fragment per entry of the column table (one per         *)
(* distinct header name), each assigning the empty string, and then the    *)
(* verification query, and it reports the count in the first row that     *)
(* query returned (0 when the row has no count, nothing when no row came   *)
(* back), which need not be zero.                                          *)
(***************************************************************************)
C8_EmptyCsv ==
    HeaderOnly(csv) =>
        /\ raised \notin {"OSError", "TypeError"}
        /\ pc \in {"build", "generate", "verify", "done"} =>
               /\ Len(datas) >= 1
               /\ \A i \in 1..Len(datas) : datas[i][2] = <<>>
        /\ pc \in {"generate", "verify", "done"} =>
               /\ Count(SPL, TPL_EVAL) = Len(datas)
               /\ Count(SPL, TPL_ASSIGN) = Len(datas)
               /\ AssignsEmpty(SPL)
        /\ pc = "done" =>
               /\ Generations = {Len(log) - 1}
               /\ log[Len(log) - 1].query = SPL
               /\ IsVerify(log[Len(log)].query, lookup_name)
               /\ printed[Len(printed)] =
                      IF result = <<>> THEN MsgN("executed", 0)
                      ELSE MsgN("contains_rows",
                                IF result[1] = <<>> THEN 0 ELSE result[1][1][2])

\* the run on a header-only file has ended and has reported a count
C8_Witness ==
    /\ HeaderOnly(csv)
    /\ pc = "done"
    /\ result # <<>>
    /\ printed[Len(printed)].msg = "contains_rows"

Distinct(s) == \A i, j \in 1..Len(s) : s[i] = s[j] => i = j

(***************************************************************************)
(* C8 as stated: ... one fragment per header column (where the header      *)
(* names differ from each other), each assigning the empty string, then    *)
(* the verification query, and a reported row count of zero (where a count *)
(* is reported at all).                                                    *)
(***************************************************************************)
C8_AsStated ==
    HeaderOnly(csv) =>
        /\ raised \notin {"OSError", "TypeError"}
        /\ pc \in {"build", "generate", "verify", "done"} =>
               \A i \in 1..Len(datas) : datas[i][2] = <<>>
        /\ pc = "done" =>
               /\ Generations = {Len(log) - 1}
               /\ Distinct(csv.rows[1]) => Count(SPL, TPL_EVAL) = Len(csv.rows[1])
               /\ AssignsEmpty(SPL)
               /\ IsVerify(log[Len(log)].query, lookup_name)
               /\ result # <<>> => printed[Len(printed)] = MsgN("contains_rows", 0)

RECURSIVE Concat(_)
Concat(ss) == IF ss = <<>> THEN <<>> ELSE Head(ss) \o Concat(Tail(ss))

\* the parts, each but the last followed by sep
Separated(parts, sep) ==
    Concat([i \in 1..Len(parts) |-> IF i < Len(parts) THEN parts[i] \o sep ELSE parts[i]])

(***************************************************************************)
(* C9: for a column table of N >= 1 columns the generation query is N      *)
(* fragments in table order, fragment i naming column i and carrying its   *)
(* values joined by ',' in row order; the first fragment stands alone,     *)
(* each other one is wrapped in '| appendcols [ ... ]', and the query ends *)
(* in one '| fields - _time | outputlookup <target>'.                      *)
(***************************************************************************)
C9_QueryShape ==
    (pc = "generate" /\ Len(datas) >= 1) =>
        LET N == Len(datas)
            Fragment(i) ==
                <<TPL_EVAL>> \o datas[i][1] \o <<TPL_ASSIGN>>
                \o Separated(datas[i][2], <<",">>)
                \o <<TPL_MAKEMV>> \o datas[i][1] \o <<TPL_MVEXPAND>> \o datas[i][1]
                \o <<TPL_END>>
            Piece(i) ==
                IF i = 1 THEN Fragment(i) ELSE <<APPENDCOLS>> \o Fragment(i) \o <<"]">>
        IN  /\ SPL = Separated([i \in 1..N |-> Piece(i)], <<"\n">>)
                     \o <<FIELDS, OUTPUTLOOKUP>> \o lookup_name
            /\ SPL[1] = TPL_EVAL
            /\ Count(SPL, TPL_EVAL) = N
            /\ Count(SPL, APPENDCOLS) = N - 1
            /\ Count(SPL, FIELDS) = 1
            /\ Count(SPL, OUTPUTLOOKUP) = 1
            /\ WriteTarget(SPL) = lookup_name

\* a query has been built from two columns of two values each
C9_Witness ==
    /\ pc = "generate"
    /\ Len(datas) = 2
    /\ Len(datas[1][2]) = 2
    /\ datas[1][2][1] # datas[1][2][2]

====
